---- MODULE Spec2Model ----
(***************************************************************************)
(* Model of the Waltero-API-to-MQTT bridge.  Two programs share one class  *)
(* WalteroAPI and differ in the telemetry strategy of their main loop:     *)
(*   "bulk"      src/API_To_Broker_Statuses.py                             *)
(*   "windowed"  src/Sensordata_Device_searchingForName_newTopic.py        *)
(* The variable mode says which of the two programs is running.            *)
(*                                                                         *)
(* Python strings that the code takes apart (names, areas, topics) are     *)
(* sequences of one-character strings; opaque values (tokens, ids) are     *)
(* TLA+ strings, with None for Python's None.  An empty opaque value is    *)
(* falsy exactly like None, so None stands for both.                       *)
(***************************************************************************)
EXTENDS Integers, Sequences, FiniteSets, TLC

\* ------------------------------------------------------------------------
\* Bounds of the model
\* ------------------------------------------------------------------------
\* devices held by the server
MaxDevices == 3
\* the page_size argument of get_devices ranges over 1..MaxPageSize
MaxPageSize == 2
\* the batch_size argument of get_device_statuses ranges over 1..MaxBatch
MaxBatch == 2
\* pieces of a device name
MaxTokens == 4

\* a page request counter can never run past this in the code as written
MaxRequests == MaxDevices + 2

None == "None"

\* ------------------------------------------------------------------------
\* String helpers (str.strip, "in", str.replace(m, ""))
\* ------------------------------------------------------------------------
IsSpace(c) == c \in {" ", "\t"}

RECURSIVE LStrip(_)
LStrip(s) ==
  IF Len(s) = 0 THEN s
  ELSE IF IsSpace(Head(s)) THEN LStrip(Tail(s)) ELSE s

RECURSIVE RStrip(_)
RStrip(s) ==
  IF Len(s) = 0 THEN s
  ELSE IF IsSpace(s[Len(s)]) THEN RStrip(SubSeq(s, 1, Len(s) - 1)) ELSE s

Strip(s) == RStrip(LStrip(s))

StartsWith(s, m) == Len(s) >= Len(m) /\ SubSeq(s, 1, Len(m)) = m

Contains(s, m) == \E i \in 1..(Len(s) - Len(m) + 1) : SubSeq(s, i, i + Len(m) - 1) = m

RECURSIVE Remove(_, _)
Remove(s, m) ==
  IF Len(s) = 0 THEN s
  ELSE IF StartsWith(s, m) THEN Remove(SubSeq(s, Len(m) + 1, Len(s)), m)
  ELSE <<Head(s)>> \o Remove(Tail(s), m)

\* Python truthiness of an opaque value
Truthy(v) == v # None

CeilDiv(n, d) == (n + d - 1) \div d

\* ------------------------------------------------------------------------
\* Literals of the program
\* ------------------------------------------------------------------------
Astellas == <<"A", "s", "t", "e", "l", "l", "a", "s">>
Gallarus == <<"G", "a", "l", "l", "a", "r", "u", "s">>
Unknown == <<"U", "n", "k", "n", "o", "w", "n">>

\* ------------------------------------------------------------------------
\* The server's data (inputs)
\* ------------------------------------------------------------------------
OtherOrg == <<"O", "t", "h", "e", "r">>
GallarusPadded == <<" ">> \o Gallarus \o <<" ">>
GallarusLower == <<"g", "a", "l", "l", "a", "r", "u", "s">>

Org(n, i) == [name |-> n, id |-> i]

\* organization lists the server may answer with
OrgLists ==
  { <<>>,
    << Org(OtherOrg, "org9"), Org(GallarusLower, "org8") >>,
    << Org(OtherOrg, "org9"), Org(GallarusPadded, "org1"), Org(Gallarus, "org2") >>,
    << Org(Gallarus, None) >> }

OrgListsSmall ==
  { << Org(OtherOrg, "org9"), Org(GallarusLower, "org8") >>,
    << Org(OtherOrg, "org9"), Org(GallarusPadded, "org1"), Org(Gallarus, "org2") >> }

NameLab == Astellas \o <<" ", "L", "a", "b">>
NameOtherCo == <<"O", "t", "h", "e", "r", "C", "o">>
NamePadded == <<" ", "L", "2", " ">> \o Astellas \o <<" ">>
ExtE == <<"E", "1">>
ExtPadded == <<" ", "E", "2", " ">>

IdOf == <<"d1", "d2", "d3", "d4", "d5", "d6">>

\* kinds of device the server may hold at position i of its listing
DeviceKinds == {"lab", "other", "bare", "padded"}

MkDevice(kind, i) ==
  CASE kind = "lab"    -> [id |-> IdOf[i], name |-> NameLab, externalmeterid |-> ExtE]
    [] kind = "other"  -> [id |-> IdOf[i], name |-> NameOtherCo, externalmeterid |-> <<>>]
    [] kind = "bare"   -> [id |-> None, name |-> Astellas, externalmeterid |-> <<>>]
    [] kind = "padded" -> [id |-> IdOf[i], name |-> NamePadded, externalmeterid |-> ExtPadded]

KindSeqs(n) == UNION { [1..k -> DeviceKinds] : k \in 0..n }

DeviceLists == { [i \in 1..Len(ks) |-> MkDevice(ks[i], i)] : ks \in KindSeqs(MaxDevices) }

\* a fixed roster: the listings used by the whole-program specification are its prefixes
RosterKind(i) == IF i = 2 THEN "bare" ELSE IF i % 4 = 0 THEN "other" ELSE "lab"

Rosters ==
  { [i \in 1..k |-> MkDevice(RosterKind(i), i)] : k \in 0..MaxDevices }
  \cup { [i \in 1..1 |-> MkDevice("other", i)] }

\* a listing in which every device matches and has an id
FullRoster == [i \in 1..MaxDevices |-> MkDevice("lab", i)]

\* PageCount field of a device page: absent, an int, or a value of another type
PcNone == [t |-> "none", n |-> 0]
PcInt(k) == [t |-> "int", n |-> k]
PcOther == [t |-> "other", n |-> 0]
PageCounts == {PcNone, PcOther} \cup { PcInt(k) : k \in 0..MaxDevices }

\* no telemetry response decoded
NoBody == [t |-> "null", items |-> <<>>]

\* outstanding HTTP request
NoReq == [kind |-> "none", page |-> 0, ids |-> <<>>]
Req(k, p, b) == [kind |-> k, page |-> p, ids |-> b]

VARIABLES
  mode,             \* which program runs
  pc,               \* position of the main thread
  access_token, machine_id, organization_id, devices_info,
  page_size, batch_size,
  current_page,     \* local of get_devices
  http,             \* the request the main thread is blocked on
  srvOrgs, srvDevices, srvChunk, srvPageCount,
  issued,           \* kinds of call issued so far in this run
  pageReqs,         \* device-page requests issued by get_devices
  devicesOutcome,   \* how get_devices ended (which message it printed)
  orgsOutcome,      \* how get_organizations ended
  decoded, taken,   \* a decoded telemetry response and the records taken from it
  ci, all_statuses, \* locals of get_device_statuses: chunk offset, accumulated result
  di,               \* index in devices_info of the device being polled (windowed)
  entries, ei,      \* the batch handed to the publisher and the index of its next record
  reqLog,           \* bodies of the telemetry requests issued in the current cycle
  respLog,          \* outcome of each of them
  pubLog            \* calls of mqtt_client.publish made in the current cycle

vars == << mode, pc, access_token, machine_id, organization_id, devices_info,
           page_size, batch_size, current_page, http,
           srvOrgs, srvDevices, srvChunk, srvPageCount,
           issued, pageReqs, devicesOutcome, orgsOutcome, decoded, taken,
           ci, all_statuses, di, entries, ei, reqLog, respLog, pubLog >>

loopVars == << ci, all_statuses, di, entries, ei, reqLog, respLog, pubLog >>
objVars == << access_token, machine_id, organization_id, devices_info >>
startVars == << current_page, pageReqs, devicesOutcome, orgsOutcome >>

srvVars == << srvOrgs, srvDevices, srvChunk, srvPageCount >>
argVars == << mode, page_size, batch_size, decoded, taken >>

\* ------------------------------------------------------------------------
\* Construction
\* ------------------------------------------------------------------------
InitObject ==
  /\ pc = "login"
  /\ access_token = None
  /\ machine_id = None
  /\ organization_id = None
  /\ devices_info = <<>>
  /\ current_page = 0
  /\ http = NoReq
  /\ issued = {}
  /\ pageReqs = 0
  /\ devicesOutcome = "notrun"
  /\ orgsOutcome = "notrun"
  /\ ci = 0
  /\ all_statuses = <<>>
  /\ di = 0
  /\ entries = <<>>
  /\ ei = 0
  /\ reqLog = <<>>
  /\ respLog = <<>>
  /\ pubLog = <<>>

\* ------------------------------------------------------------------------
\* login
\* ------------------------------------------------------------------------
LoginBodies == [AccessToken : {None, "t"}, MachineId : {None, "m"}]

\* the value of login() as the main program tests it
LoginOk_M(tok, mid) == Truthy(tok)
LoginOk(tok, mid) == Truthy(tok) /\ Truthy(mid)

\* if api.login(...): the rest of the program runs, otherwise it ends
AfterLogin_M(ok) == "orgs"
AfterLogin(ok) == IF ok THEN "orgs" ELSE "exit"

LoginSend ==
  /\ pc = "login"
  /\ http' = Req("login", 0, <<>>)
  /\ issued' = issued \cup {"login"}
  /\ pc' = "login_wait"
  /\ UNCHANGED << access_token, machine_id, organization_id, devices_info,
                  current_page, pageReqs, devicesOutcome >>
  /\ UNCHANGED srvVars /\ UNCHANGED argVars /\ UNCHANGED loopVars
  /\ UNCHANGED orgsOutcome

LoginFail ==
  /\ pc = "login_wait"
  /\ http' = NoReq
  /\ pc' = AfterLogin(FALSE)
  /\ UNCHANGED << access_token, machine_id, organization_id, devices_info,
                  current_page, issued, pageReqs, devicesOutcome >>
  /\ UNCHANGED srvVars /\ UNCHANGED argVars /\ UNCHANGED loopVars
  /\ UNCHANGED orgsOutcome

LoginRecv ==
  /\ pc = "login_wait"
  /\ \E data \in LoginBodies :
       /\ access_token' = data.AccessToken
       /\ machine_id' = data.MachineId
       /\ pc' = AfterLogin(LoginOk(data.AccessToken, data.MachineId))
  /\ http' = NoReq
  /\ UNCHANGED << organization_id, devices_info,
                  current_page, issued, pageReqs, devicesOutcome >>
  /\ UNCHANGED srvVars /\ UNCHANGED argVars /\ UNCHANGED loopVars
  /\ UNCHANGED orgsOutcome

\* ------------------------------------------------------------------------
\* get_organizations
\* ------------------------------------------------------------------------
OrgMatches_M(org, org_name) == TRUE
OrgMatches(org, org_name) == Strip(org.name) = Strip(org_name)

RECURSIVE FirstMatch(_, _)
FirstMatch_M(orgs, org_name) ==
  LET ms == SelectSeq(orgs, LAMBDA o : OrgMatches(o, org_name))
  IN  IF Len(ms) = 0 THEN <<>> ELSE <<ms[Len(ms)]>>

FirstMatch(orgs, org_name) ==
  IF Len(orgs) = 0 THEN <<>>
  ELSE IF OrgMatches(Head(orgs), org_name) THEN <<Head(orgs)>>
  ELSE FirstMatch(Tail(orgs), org_name)

OrgsSend ==
  /\ pc = "orgs"
  /\ http' = Req("orgs", 0, <<>>)
  /\ issued' = issued \cup {"orgs"}
  /\ pc' = "orgs_wait"
  /\ UNCHANGED << access_token, machine_id, organization_id, devices_info,
                  current_page, pageReqs, devicesOutcome >>
  /\ UNCHANGED srvVars /\ UNCHANGED argVars /\ UNCHANGED loopVars
  /\ UNCHANGED orgsOutcome

OrgsFail ==
  /\ pc = "orgs_wait"
  /\ http' = NoReq
  /\ orgsOutcome' = "error"
  /\ pc' = "devices"
  /\ UNCHANGED << access_token, machine_id, organization_id, devices_info,
                  current_page, issued, pageReqs, devicesOutcome >>
  /\ UNCHANGED srvVars /\ UNCHANGED argVars /\ UNCHANGED loopVars

OrgsRecv ==
  /\ pc = "orgs_wait"
  /\ LET m == FirstMatch(srvOrgs, Gallarus)
     IN  organization_id' = IF Len(m) = 0 THEN organization_id ELSE m[1].id
  /\ http' = NoReq
  /\ orgsOutcome' = "ok"
  /\ pc' = "devices"
  /\ UNCHANGED << access_token, machine_id, devices_info,
                  current_page, issued, pageReqs, devicesOutcome >>
  /\ UNCHANGED srvVars /\ UNCHANGED argVars /\ UNCHANGED loopVars

\* ------------------------------------------------------------------------
\* get_devices
\* (total_found is only printed and is left out; devicesOutcome records which
\* of the function's exits was taken)
\* ------------------------------------------------------------------------
Min(a, b) == IF a < b THEN a ELSE b

\* page k as the server cuts its listing
SrvPage(k) == SubSeq(srvDevices, (k - 1) * srvChunk + 1, Min(k * srvChunk, Len(srvDevices)))

IsMatch_M(device) == TRUE
IsMatch(device) == Contains(Strip(device.name), Astellas)

AreaOf_M(name) == Strip(Remove(name, Astellas))

AreaOf(name) ==
  LET a == Strip(Remove(name, Astellas))
  IN  IF Len(a) = 0 THEN Unknown ELSE a

DeviceRecord(device) ==
  [id |-> device.id,
   area |-> AreaOf(Strip(device.name)),
   external |-> Strip(device.externalmeterid)]

RECURSIVE Matching(_)
Matching(results) ==
  IF Len(results) = 0 THEN <<>>
  ELSE (IF IsMatch(Head(results)) THEN <<DeviceRecord(Head(results))>> ELSE <<>>)
       \o Matching(Tail(results))

StopOnPageCount_M(page_count, page) == page_count.t = "int" /\ page > page_count.n
StopOnPageCount(page_count, page) == page_count.t = "int" /\ page >= page_count.n

StopOnShortPage(page_count, results, size) == page_count.t = "none" /\ Len(results) < size

NextPage_M(page) == page
NextPage(page) == page + 1

DevicesEnter_M ==
  /\ pc = "devices"
  /\ IF ~Truthy(organization_id)
     THEN /\ devicesOutcome' = "skipped"
          /\ pc' = "loop"
          /\ UNCHANGED << current_page, devices_info >>
     ELSE /\ current_page' = 1
          /\ pc' = "page"
          /\ UNCHANGED << devicesOutcome, devices_info >>
  /\ UNCHANGED << access_token, machine_id, organization_id, http, issued, pageReqs >>
  /\ UNCHANGED srvVars /\ UNCHANGED argVars /\ UNCHANGED loopVars
  /\ UNCHANGED orgsOutcome
DevicesEnter ==
  /\ pc = "devices"
  /\ IF ~Truthy(organization_id)
     THEN /\ devicesOutcome' = "skipped"
          /\ pc' = "loop"
          /\ UNCHANGED << current_page, devices_info >>
     ELSE /\ current_page' = 1
          /\ devices_info' = <<>>
          /\ pc' = "page"
          /\ UNCHANGED devicesOutcome
  /\ UNCHANGED << access_token, machine_id, organization_id, http, issued, pageReqs >>
  /\ UNCHANGED srvVars /\ UNCHANGED argVars /\ UNCHANGED loopVars
  /\ UNCHANGED orgsOutcome

PageSend ==
  /\ pc = "page"
  /\ pageReqs < MaxRequests
  /\ http' = Req("devices", current_page, <<>>)
  /\ issued' = issued \cup {"devices"}
  /\ pageReqs' = pageReqs + 1
  /\ pc' = "page_wait"
  /\ UNCHANGED << access_token, machine_id, organization_id, devices_info,
                  current_page, devicesOutcome >>
  /\ UNCHANGED srvVars /\ UNCHANGED argVars /\ UNCHANGED loopVars
  /\ UNCHANGED orgsOutcome

PageFail_M ==
  /\ pc = "page_wait"
  /\ http' = NoReq
  /\ devicesOutcome' = "error"
  /\ devices_info' = <<>>
  /\ pc' = "loop"
  /\ UNCHANGED << access_token, machine_id, organization_id,
                  current_page, issued, pageReqs >>
  /\ UNCHANGED srvVars /\ UNCHANGED argVars /\ UNCHANGED loopVars
  /\ UNCHANGED orgsOutcome

PageFail ==
  /\ pc = "page_wait"
  /\ http' = NoReq
  /\ devicesOutcome' = "error"
  /\ pc' = "loop"
  /\ UNCHANGED << access_token, machine_id, organization_id, devices_info,
                  current_page, issued, pageReqs >>
  /\ UNCHANGED srvVars /\ UNCHANGED argVars /\ UNCHANGED loopVars
  /\ UNCHANGED orgsOutcome

PageNotList_M ==
  /\ pc = "page_wait"
  /\ http' = NoReq
  /\ devicesOutcome' = "malformed"
  /\ current_page' = NextPage(current_page)
  /\ pc' = "page"
  /\ UNCHANGED << access_token, machine_id, organization_id, devices_info,
                  issued, pageReqs >>
  /\ UNCHANGED srvVars /\ UNCHANGED argVars /\ UNCHANGED loopVars
  /\ UNCHANGED orgsOutcome

PageNotList ==
  /\ pc = "page_wait"
  /\ http' = NoReq
  /\ devicesOutcome' = "malformed"
  /\ pc' = "loop"
  /\ UNCHANGED << access_token, machine_id, organization_id, devices_info,
                  current_page, issued, pageReqs >>
  /\ UNCHANGED srvVars /\ UNCHANGED argVars /\ UNCHANGED loopVars
  /\ UNCHANGED orgsOutcome

PageRecv ==
  /\ pc = "page_wait"
  /\ http' = NoReq
  /\ LET results == SrvPage(current_page)
         page_count == srvPageCount
     IN  IF Len(results) = 0
         THEN /\ devicesOutcome' = "ok"
              /\ pc' = "loop"
              /\ UNCHANGED << devices_info, current_page >>
         ELSE /\ devices_info' = devices_info \o Matching(results)
              /\ IF \/ StopOnPageCount(page_count, current_page)
                    \/ StopOnShortPage(page_count, results, page_size)
                 THEN /\ devicesOutcome' = "ok"
                      /\ pc' = "loop"
                      /\ UNCHANGED current_page
                 ELSE /\ current_page' = NextPage(current_page)
                      /\ pc' = "page"
                      /\ UNCHANGED devicesOutcome
  /\ UNCHANGED << access_token, machine_id, organization_id, issued, pageReqs >>
  /\ UNCHANGED srvVars /\ UNCHANGED argVars /\ UNCHANGED loopVars
  /\ UNCHANGED orgsOutcome

\* ------------------------------------------------------------------------
\* Startup: login, get_organizations, get_devices
\* ------------------------------------------------------------------------
InitStartup ==
  /\ InitObject
  /\ decoded = NoBody /\ taken = <<>>
  /\ mode \in {"bulk", "windowed"}
  /\ page_size \in 1..MaxPageSize
  /\ batch_size = 1
  /\ srvOrgs \in OrgLists
  /\ srvDevices \in DeviceLists
  /\ srvChunk \in 1..MaxPageSize
  /\ srvPageCount \in PageCounts

NextStartup ==
  \/ LoginSend \/ LoginFail \/ LoginRecv
  \/ OrgsSend \/ OrgsFail \/ OrgsRecv
  \/ DevicesEnter \/ PageSend \/ PageFail \/ PageNotList \/ PageRecv

SpecStartup == InitStartup /\ [][NextStartup]_vars

\* ------------------------------------------------------------------------
\* get_devices alone: one call on an object that is logged in, whose
\* organization was resolved or not, and whose catalog holds what an earlier
\* call left
\* ------------------------------------------------------------------------
PrevCatalogs == {<<>>, Matching(<<MkDevice("lab", 1)>>)}

InitDiscover ==
  /\ pc = "devices"
  /\ access_token = "t" /\ machine_id = "m"
  /\ organization_id \in {None, "org1"}
  /\ devices_info \in PrevCatalogs
  /\ current_page = 0
  /\ http = NoReq
  /\ issued = {"login", "orgs"}
  /\ pageReqs = 0
  /\ devicesOutcome = "notrun"
  /\ orgsOutcome = "ok"
  /\ ci = 0 /\ all_statuses = <<>> /\ di = 0 /\ entries = <<>> /\ ei = 0
  /\ reqLog = <<>> /\ respLog = <<>> /\ pubLog = <<>>
  /\ decoded = NoBody /\ taken = <<>>
  /\ mode \in {"bulk", "windowed"}
  /\ page_size \in 1..MaxPageSize
  /\ batch_size = 1
  /\ srvOrgs = <<>>
  /\ srvDevices \in DeviceLists
  /\ srvChunk \in 1..MaxPageSize
  /\ srvPageCount \in PageCounts

NextDiscover == DevicesEnter \/ PageSend \/ PageFail \/ PageNotList \/ PageRecv

SpecDiscover == InitDiscover /\ [][NextDiscover]_vars

\* ------------------------------------------------------------------------
\* get_devices on a listing of one device, over many device names
\* ------------------------------------------------------------------------
\* a name is made of up to MaxTokens pieces: the marker ("M"), a space, a letter
NameTokens == {"M", " ", "L"}

TokenSeqs == UNION { [1..k -> NameTokens] : k \in 0..MaxTokens }

RECURSIVE NameOf(_)
NameOf(ts) ==
  IF Len(ts) = 0 THEN <<>>
  ELSE (IF Head(ts) = "M" THEN Astellas ELSE <<Head(ts)>>) \o NameOf(Tail(ts))

NamedListings ==
  { <<[id |-> "d1", name |-> NameOf(ts), externalmeterid |-> ExtPadded]>> : ts \in TokenSeqs }

InitNames ==
  /\ pc = "devices"
  /\ access_token = "t" /\ machine_id = "m"
  /\ organization_id = "org1"
  /\ devices_info = <<>>
  /\ current_page = 0
  /\ http = NoReq
  /\ issued = {"login", "orgs"}
  /\ pageReqs = 0
  /\ devicesOutcome = "notrun"
  /\ orgsOutcome = "ok"
  /\ ci = 0 /\ all_statuses = <<>> /\ di = 0 /\ entries = <<>> /\ ei = 0
  /\ reqLog = <<>> /\ respLog = <<>> /\ pubLog = <<>>
  /\ decoded = NoBody /\ taken = <<>>
  /\ mode \in {"bulk", "windowed"}
  /\ page_size = 1
  /\ batch_size = 1
  /\ srvOrgs = <<>>
  /\ srvDevices \in NamedListings
  /\ srvChunk = 1
  /\ srvPageCount \in {PcNone, PcInt(1)}

SpecNames == InitNames /\ [][NextDiscover]_vars

\* ------------------------------------------------------------------------
\* Telemetry responses (inputs)
\* ------------------------------------------------------------------------
\* a JSON value stored under a key of a response object
JAbsent == [t |-> "absent", items |-> <<>>]
JNull == [t |-> "null", items |-> <<>>]
JScalar == [t |-> "scalar", items |-> <<>>]     \* a truthy value that is no list
JList(xs) == [t |-> "list", items |-> xs]

NoKeys == [Results |-> JAbsent, results |-> JAbsent, data |-> JAbsent, Data |-> JAbsent]

\* a decoded response body: a list, an object, another truthy value, or null
PList(xs) == [t |-> "list", items |-> xs, obj |-> NoKeys, other |-> FALSE]
PDict(o, more) == [t |-> "dict", items |-> <<>>, obj |-> o, other |-> more]
PScalar == [t |-> "scalar", items |-> <<>>, obj |-> NoKeys, other |-> FALSE]
PNull == [t |-> "null", items |-> <<>>, obj |-> NoKeys, other |-> FALSE]

\* a telemetry record; a key that is absent reads as None through .get
Entry(a, b, c) == [deviceid |-> a, device_id |-> b, id |-> c]
EntryA == Entry("d1", None, None)
EntryB == Entry(None, None, "d2")
EntryC == Entry(None, None, None)
EntryD == Entry(None, "d3", None)

TelemetryBodies ==
  { PList(<<>>),
    PList(<<EntryA>>),
    PList(<<EntryC, EntryB>>),
    PDict([NoKeys EXCEPT !.Results = JList(<<EntryD>>)], FALSE),
    PDict(NoKeys, TRUE),
    PScalar,
    PNull }

JTruthy(v) == (v.t = "list" /\ Len(v.items) > 0) \/ v.t = "scalar"

PTruthy(d) ==
  CASE d.t = "list"   -> Len(d.items) > 0
    [] d.t = "dict"   -> d.other \/ \E key \in DOMAIN d.obj : d.obj[key].t # "absent"
    [] d.t = "scalar" -> TRUE
    [] OTHER          -> FALSE

\* get_device_statuses, normalisation of one chunk's response
NormalizeBulk(body) ==
  LET data == IF PTruthy(body) THEN body ELSE PList(<<>>)
      v == IF JTruthy(data.obj.Results) THEN data.obj.Results
           ELSE IF JTruthy(data.obj.results) THEN data.obj.results
           ELSE IF JTruthy(data.obj.data) THEN data.obj.data
           ELSE JList(<<>>)
  IN  IF data.t = "list" THEN data.items
      ELSE IF data.t = "dict" THEN (IF v.t = "list" THEN v.items ELSE <<>>)
      ELSE <<>>

\* publish_to_mqtt, normalisation of a device's response
NormalizeWindowed(sensor_data) ==
  LET o == sensor_data.obj
  IN  IF sensor_data.t = "list" THEN sensor_data.items
      ELSE IF sensor_data.t = "dict"
           THEN IF o.Results.t = "list" THEN o.Results.items
                ELSE IF o.results.t = "list" THEN o.results.items
                ELSE IF o.data.t = "list" THEN o.data.items
                ELSE IF o.Data.t = "list" THEN o.Data.items
                ELSE <<>>
      ELSE <<>>

\* ------------------------------------------------------------------------
\* Publishing
\* (the counter published of publish_statuses_to_mqtt is only printed and is
\* left out; pubLog records every call of mqtt_client.publish with its outcome)
\* ------------------------------------------------------------------------
Statuses == <<"S", "t", "a", "t", "u", "s", "e", "s">>
UnknownLower == <<"u", "n", "k", "n", "o", "w", "n">>
Slash == <<"/">>

\* device_id = entry.get("deviceid") or entry.get("device_id") or entry.get("id")
ExtractId(entry) ==
  IF Truthy(entry.deviceid) THEN entry.deviceid
  ELSE IF Truthy(entry.device_id) THEN entry.device_id
  ELSE entry.id

SkipEntry_M(entry) == FALSE
SkipEntry(entry) == ~Truthy(ExtractId(entry))

BulkTopic(device_id) == Astellas \o Slash \o Statuses \o Slash \o <<device_id>>

WindowedTopic_M(area, external) == Astellas \o Slash \o area \o Slash \o external

WindowedTopic(area, external) ==
  Astellas \o Slash \o area \o Slash \o (IF Len(external) = 0 THEN UnknownLower ELSE external)

\* result of one call of mqtt_client.publish: success code, another code, or an exception
PublishOutcomes == {"ok", "rc", "raise"}

Published(topic, entry, rc, dev) == [topic |-> topic, entry |-> entry, rc |-> rc, dev |-> dev]

Resp(ok, recs) == [ok |-> ok, records |-> recs]

\* ------------------------------------------------------------------------
\* Main loop, bulk program: get_device_statuses and publish_statuses_to_mqtt
\* ------------------------------------------------------------------------
RECURSIVE DeviceIds(_)
DeviceIds(info) ==
  IF Len(info) = 0 THEN <<>>
  ELSE (IF Truthy(Head(info).id) THEN <<Head(info).id>> ELSE <<>>) \o DeviceIds(Tail(info))

\* chunks(seq, size): the slice seq[off : off + size]
Chunk(seq, off, size) == SubSeq(seq, off + 1, Min(off + size, Len(seq)))

NextOffset_M(off, size) == off + 1
NextOffset(off, size) == off + size

\* the for loop over the chunks has no chunk left once the offset has passed the ids
LastChunk_M(off, n) == TRUE
LastChunk(off, n) == off >= n

\* what the main loop does with the value get_device_statuses returned
AfterFetch(statuses) == IF Len(statuses) > 0 THEN "publish" ELSE "sleep"

StatusesBegin ==
  /\ pc = "loop" /\ mode = "bulk"
  /\ IF Len(DeviceIds(devices_info)) = 0
     THEN /\ entries' = <<>>
          /\ pc' = AfterFetch(<<>>)
          /\ UNCHANGED << ci, all_statuses >>
     ELSE /\ ci' = 0
          /\ all_statuses' = <<>>
          /\ pc' = "chunk"
          /\ UNCHANGED entries
  /\ UNCHANGED << di, ei, reqLog, respLog, pubLog, http, issued >>
  /\ UNCHANGED objVars /\ UNCHANGED startVars /\ UNCHANGED srvVars /\ UNCHANGED argVars

ChunkSend ==
  /\ pc = "chunk" /\ mode = "bulk"
  /\ LET group == Chunk(DeviceIds(devices_info), ci, batch_size)
     IN  /\ http' = Req("statuses", 0, group)
         /\ reqLog' = Append(reqLog, group)
  /\ issued' = issued \cup {"telemetry"}
  /\ pc' = "chunk_wait"
  /\ UNCHANGED << ci, all_statuses, di, entries, ei, respLog, pubLog >>
  /\ UNCHANGED objVars /\ UNCHANGED startVars /\ UNCHANGED srvVars /\ UNCHANGED argVars

\* what get_device_statuses returns when a chunk's request raised
OnChunkError_M(acc) == acc
OnChunkError(acc) == <<>>

ChunkFail ==
  /\ pc = "chunk_wait" /\ mode = "bulk"
  /\ http' = NoReq
  /\ respLog' = Append(respLog, Resp(FALSE, <<>>))
  /\ entries' = OnChunkError(all_statuses)
  /\ pc' = AfterFetch(OnChunkError(all_statuses))
  /\ ei' = 1
  /\ UNCHANGED << ci, all_statuses, di, reqLog, pubLog, issued >>
  /\ UNCHANGED objVars /\ UNCHANGED startVars /\ UNCHANGED srvVars /\ UNCHANGED argVars

ChunkRecv ==
  /\ pc = "chunk_wait" /\ mode = "bulk"
  /\ http' = NoReq
  /\ \E body \in TelemetryBodies :
       LET statuses == NormalizeBulk(body)
           acc == all_statuses \o statuses
           off == NextOffset(ci, batch_size)
       IN  /\ respLog' = Append(respLog, Resp(TRUE, statuses))
           /\ all_statuses' = acc
           /\ ci' = off
           /\ IF LastChunk(off, Len(DeviceIds(devices_info)))
              THEN /\ entries' = acc
                   /\ ei' = 1
                   /\ pc' = AfterFetch(acc)
              ELSE /\ pc' = "chunk"
                   /\ UNCHANGED << entries, ei >>
  /\ UNCHANGED << di, reqLog, pubLog, issued >>
  /\ UNCHANGED objVars /\ UNCHANGED startVars /\ UNCHANGED srvVars /\ UNCHANGED argVars

StatusSkip ==
  /\ pc = "publish" /\ mode = "bulk"
  /\ SkipEntry(entries[ei])
  /\ IF ei = Len(entries)
     THEN pc' = "sleep" /\ UNCHANGED ei
     ELSE ei' = ei + 1 /\ UNCHANGED pc
  /\ UNCHANGED << ci, all_statuses, di, entries, reqLog, respLog, pubLog, http, issued >>
  /\ UNCHANGED objVars /\ UNCHANGED startVars /\ UNCHANGED srvVars /\ UNCHANGED argVars

\* variant: the try/except encloses the for loop, so an exception ends the batch
StatusPublish_M ==
  /\ pc = "publish" /\ mode = "bulk"
  /\ ~SkipEntry(entries[ei])
  /\ \E rc \in PublishOutcomes :
       /\ pubLog' = Append(pubLog, Published(BulkTopic(ExtractId(entries[ei])), entries[ei], rc, 0))
       /\ IF ei = Len(entries) \/ rc = "raise"
          THEN pc' = "sleep" /\ UNCHANGED ei
          ELSE ei' = ei + 1 /\ UNCHANGED pc
  /\ issued' = issued \cup {"publish"}
  /\ UNCHANGED << ci, all_statuses, di, entries, reqLog, respLog, http >>
  /\ UNCHANGED objVars /\ UNCHANGED startVars /\ UNCHANGED srvVars /\ UNCHANGED argVars

StatusPublish ==
  /\ pc = "publish" /\ mode = "bulk"
  /\ ~SkipEntry(entries[ei])
  /\ \E rc \in PublishOutcomes :
       pubLog' = Append(pubLog, Published(BulkTopic(ExtractId(entries[ei])), entries[ei], rc, 0))
  /\ issued' = issued \cup {"publish"}
  /\ IF ei = Len(entries)
     THEN pc' = "sleep" /\ UNCHANGED ei
     ELSE ei' = ei + 1 /\ UNCHANGED pc
  /\ UNCHANGED << ci, all_statuses, di, entries, reqLog, respLog, http >>
  /\ UNCHANGED objVars /\ UNCHANGED startVars /\ UNCHANGED srvVars /\ UNCHANGED argVars

\* ------------------------------------------------------------------------
\* Main loop, windowed program: get_sensor_data and publish_to_mqtt
\* ------------------------------------------------------------------------
DevicesBegin ==
  /\ pc = "loop" /\ mode = "windowed"
  /\ IF Len(devices_info) = 0
     THEN pc' = "sleep" /\ UNCHANGED di
     ELSE pc' = "sensor" /\ di' = 1
  /\ UNCHANGED << ci, all_statuses, entries, ei, reqLog, respLog, pubLog, http, issued >>
  /\ UNCHANGED objVars /\ UNCHANGED startVars /\ UNCHANGED srvVars /\ UNCHANGED argVars

SensorSend ==
  /\ pc = "sensor" /\ mode = "windowed"
  /\ http' = Req("dataview", 0, <<devices_info[di].id>>)
  /\ reqLog' = Append(reqLog, <<devices_info[di].id>>)
  /\ issued' = issued \cup {"telemetry"}
  /\ pc' = "sensor_wait"
  /\ UNCHANGED << ci, all_statuses, di, entries, ei, respLog, pubLog >>
  /\ UNCHANGED objVars /\ UNCHANGED startVars /\ UNCHANGED srvVars /\ UNCHANGED argVars

\* the for loop of the main program moves to the next device, or the cycle ends
NextDevice(d) == d + 1

\* variant: a failed request ends the cycle
SensorFail_M ==
  /\ pc = "sensor_wait" /\ mode = "windowed"
  /\ http' = NoReq
  /\ respLog' = Append(respLog, Resp(FALSE, <<>>))
  /\ pc' = "sleep"
  /\ UNCHANGED << ci, all_statuses, di, entries, ei, reqLog, pubLog, issued >>
  /\ UNCHANGED objVars /\ UNCHANGED startVars /\ UNCHANGED srvVars /\ UNCHANGED argVars

SensorFail ==
  /\ pc = "sensor_wait" /\ mode = "windowed"
  /\ http' = NoReq
  /\ respLog' = Append(respLog, Resp(FALSE, <<>>))
  /\ IF di = Len(devices_info)
     THEN pc' = "sleep" /\ UNCHANGED di
     ELSE pc' = "sensor" /\ di' = NextDevice(di)
  /\ UNCHANGED << ci, all_statuses, entries, ei, reqLog, pubLog, issued >>
  /\ UNCHANGED objVars /\ UNCHANGED startVars /\ UNCHANGED srvVars /\ UNCHANGED argVars

SensorRecv ==
  /\ pc = "sensor_wait" /\ mode = "windowed"
  /\ http' = NoReq
  /\ \E data \in TelemetryBodies :
       LET recs == NormalizeWindowed(data)
       IN  /\ respLog' = Append(respLog, Resp(TRUE, recs))
           /\ IF PTruthy(data) /\ Len(recs) > 0
              THEN /\ entries' = recs
                   /\ ei' = 1
                   /\ pc' = "publish"
                   /\ UNCHANGED di
              ELSE /\ IF di = Len(devices_info)
                      THEN pc' = "sleep" /\ UNCHANGED di
                      ELSE pc' = "sensor" /\ di' = NextDevice(di)
                   /\ UNCHANGED << entries, ei >>
  /\ UNCHANGED << ci, all_statuses, reqLog, pubLog, issued >>
  /\ UNCHANGED objVars /\ UNCHANGED startVars /\ UNCHANGED srvVars /\ UNCHANGED argVars

\* variant: no try/except around publish, so an exception ends the process
EntryPublish_M ==
  /\ pc = "publish" /\ mode = "windowed"
  /\ \E rc \in PublishOutcomes :
       /\ pubLog' = Append(pubLog,
                      Published(WindowedTopic(devices_info[di].area, devices_info[di].external),
                                entries[ei], rc, di))
       /\ IF rc = "raise"
          THEN pc' = "exit" /\ UNCHANGED << ei, di >>
          ELSE IF ei < Len(entries)
               THEN ei' = ei + 1 /\ UNCHANGED << pc, di >>
               ELSE /\ UNCHANGED ei
                    /\ IF di = Len(devices_info)
                       THEN pc' = "sleep" /\ UNCHANGED di
                       ELSE pc' = "sensor" /\ di' = NextDevice(di)
  /\ issued' = issued \cup {"publish"}
  /\ UNCHANGED << ci, all_statuses, entries, reqLog, respLog, http >>
  /\ UNCHANGED objVars /\ UNCHANGED startVars /\ UNCHANGED srvVars /\ UNCHANGED argVars

EntryPublish ==
  /\ pc = "publish" /\ mode = "windowed"
  /\ \E rc \in PublishOutcomes :
       pubLog' = Append(pubLog,
                   Published(WindowedTopic(devices_info[di].area, devices_info[di].external),
                             entries[ei], rc, di))
  /\ issued' = issued \cup {"publish"}
  /\ IF ei < Len(entries)
     THEN ei' = ei + 1 /\ UNCHANGED << pc, di >>
     ELSE /\ UNCHANGED ei
          /\ IF di = Len(devices_info)
             THEN pc' = "sleep" /\ UNCHANGED di
             ELSE pc' = "sensor" /\ di' = NextDevice(di)
  /\ UNCHANGED << ci, all_statuses, entries, reqLog, respLog, http >>
  /\ UNCHANGED objVars /\ UNCHANGED startVars /\ UNCHANGED srvVars /\ UNCHANGED argVars

\* ------------------------------------------------------------------------
\* time.sleep(60) at the end of every cycle
\* ------------------------------------------------------------------------
SleepStart ==
  /\ pc = "sleep"
  /\ pc' = "sleeping"
  /\ issued' = issued \cup {"sleep"}
  /\ UNCHANGED << http >> /\ UNCHANGED loopVars
  /\ UNCHANGED objVars /\ UNCHANGED startVars /\ UNCHANGED srvVars /\ UNCHANGED argVars

\* the sleep returns and the next cycle starts with fresh locals
Wake_M ==
  /\ pc = "sleeping"
  /\ pc' = "devices"
  /\ ci' = 0 /\ all_statuses' = <<>> /\ di' = 0 /\ entries' = <<>> /\ ei' = 0
  /\ reqLog' = <<>> /\ respLog' = <<>> /\ pubLog' = <<>>
  /\ UNCHANGED << http, issued >>
  /\ UNCHANGED objVars /\ UNCHANGED startVars /\ UNCHANGED srvVars /\ UNCHANGED argVars
Wake ==
  /\ pc = "sleeping"
  /\ pc' = "loop"
  /\ ci' = 0 /\ all_statuses' = <<>> /\ di' = 0 /\ entries' = <<>> /\ ei' = 0
  /\ reqLog' = <<>> /\ respLog' = <<>> /\ pubLog' = <<>>
  /\ UNCHANGED << http, issued >>
  /\ UNCHANGED objVars /\ UNCHANGED startVars /\ UNCHANGED srvVars /\ UNCHANGED argVars

\* ------------------------------------------------------------------------
\* The whole program
\* ------------------------------------------------------------------------
Init ==
  /\ InitObject
  /\ decoded = NoBody /\ taken = <<>>
  /\ mode \in {"bulk", "windowed"}
  /\ page_size \in 1..MaxPageSize
  /\ batch_size \in (IF mode = "bulk" THEN 1..MaxBatch ELSE {1})
  /\ srvOrgs \in OrgListsSmall
  /\ srvDevices \in (IF mode = "bulk" THEN Rosters \cup {FullRoster} ELSE Rosters)
  /\ srvChunk = page_size
  /\ srvPageCount \in {PcNone, PcInt(CeilDiv(Len(srvDevices), page_size))}

NextLoop ==
  \/ StatusesBegin \/ ChunkSend \/ ChunkFail \/ ChunkRecv \/ StatusSkip \/ StatusPublish
  \/ DevicesBegin \/ SensorSend \/ SensorFail \/ SensorRecv \/ EntryPublish
  \/ SleepStart \/ Wake

Next == NextStartup \/ NextLoop

Spec == Init /\ [][Next]_vars

\* every blocking call returns: the main thread always takes its next step
InitLive == Init /\ page_size = 1 /\ srvPageCount = PcNone

SpecLive == InitLive /\ [][Next]_vars /\ WF_vars(Next)

\* ------------------------------------------------------------------------
\* The records taken from one decoded telemetry response, by either program
\* ------------------------------------------------------------------------
ResponseKeys == {"Results", "results", "data", "Data"}

KeyValues == {JAbsent, JNull, JScalar, JList(<<>>), JList(<<EntryA>>), JList(<<EntryB>>)}

\* decoded responses: lists, objects with any values under the four keys, other values
DecodedBodies ==
  { PList(xs) : xs \in {<<>>, <<EntryA>>, <<EntryA, EntryB>>} }
  \cup { PDict(o, more) : o \in [ResponseKeys -> KeyValues], more \in BOOLEAN }
  \cup { PScalar, PNull }

\* windowed program: the main loop hands a truthy response to publish_to_mqtt,
\* which publishes the entries it normalises the response to
RecordsWindowed(data) == IF PTruthy(data) THEN NormalizeWindowed(data) ELSE <<>>

InitRecords ==
  /\ pc = "records"
  /\ decoded \in DecodedBodies
  /\ taken = <<>>
  /\ mode \in {"bulk", "windowed"}
  /\ access_token = "t" /\ machine_id = "m"
  /\ organization_id = "org1"
  /\ devices_info = <<>>
  /\ current_page = 0
  /\ http = NoReq
  /\ issued = {"login", "orgs"}
  /\ pageReqs = 0
  /\ devicesOutcome = "notrun"
  /\ orgsOutcome = "ok"
  /\ ci = 0 /\ all_statuses = <<>> /\ di = 0 /\ entries = <<>> /\ ei = 0
  /\ reqLog = <<>> /\ respLog = <<>> /\ pubLog = <<>>
  /\ page_size = 1
  /\ batch_size = 1
  /\ srvOrgs = <<>>
  /\ srvDevices = <<>>
  /\ srvChunk = 1
  /\ srvPageCount = PcNone

TakeRecords ==
  /\ pc = "records"
  /\ taken' = IF mode = "bulk" THEN NormalizeBulk(decoded) ELSE RecordsWindowed(decoded)
  /\ pc' = "records_done"
  /\ UNCHANGED << mode, page_size, batch_size, decoded, http, issued >>
  /\ UNCHANGED objVars /\ UNCHANGED startVars /\ UNCHANGED srvVars /\ UNCHANGED loopVars

NextRecords == TakeRecords

SpecRecords == InitRecords /\ [][NextRecords]_vars

\* ------------------------------------------------------------------------
\* Vocabulary of the properties
\* ------------------------------------------------------------------------
StartupPcs == {"login", "login_wait", "orgs", "orgs_wait", "devices", "page", "page_wait"}
LoopPcs == {"loop", "chunk", "chunk_wait", "sensor", "sensor_wait", "publish", "sleep", "sleeping"}

InLoop == pc \in LoopPcs

\* the loop has issued its first telemetry request or started its first sleep
Polling == InLoop /\ (issued \cap {"telemetry", "sleep"}) # {}

LoggedIn == access_token # None /\ machine_id # None
OrgResolved == organization_id # None
DiscoveryOk == devicesOutcome = "ok"

CycleDone == pc \in {"sleep", "sleeping"}

TelemetryOutstanding == http.kind \in {"statuses", "dataview"}

HasMarker(device) == Contains(Strip(device.name), Astellas)
TotalMatching == Cardinality({ n \in 1..Len(srvDevices) : HasMarker(srvDevices[n]) })

IsPrefix(a, b) == Len(a) <= Len(b) /\ \A n \in 1..Len(a) : a[n] = b[n]

RECURSIVE Flatten(_)
Flatten(ss) == IF Len(ss) = 0 THEN <<>> ELSE Head(ss) \o Flatten(Tail(ss))

\* ------------------------------------------------------------------------
\* C1
\* ------------------------------------------------------------------------
\* C1 as stated: the loop is Polling only after login, organization resolution
\* and device discovery have all three succeeded.
C1_PollingOnlyAfterAllThree == Polling => (LoggedIn /\ OrgResolved /\ DiscoveryOk)

\* C1 (amended): the loop enters Polling at most once per run (once Polling it
\* stays Polling), and only after login has succeeded and get_organizations and
\* get_devices have both returned, whether or not they succeeded.
C1_PollingOnceAfterLogin ==
  /\ [](Polling => (LoggedIn /\ "orgs" \in issued /\ devicesOutcome # "notrun"))
  /\ [][Polling => Polling']_vars

\* the loop sleeps although the organization was never resolved
C1_Witness == Polling /\ pc = "sleeping" /\ LoggedIn /\ ~OrgResolved /\ devicesOutcome = "skipped"

\* ------------------------------------------------------------------------
\* C2
\* ------------------------------------------------------------------------
LoginReturned == "login" \in issued /\ pc # "login_wait"

\* C2: when login has failed (transport failure, or a body lacking AccessToken
\* or MachineId) the program has ended and the only call it ever issued is the
\* login request: no organization, device-page or telemetry request, no publish.
C2_LoginFailureEndsRun ==
  (LoginReturned /\ ~LoggedIn) =>
    /\ pc = "exit"
    /\ issued = {"login"}
    /\ http = NoReq
    /\ pageReqs = 0 /\ reqLog = <<>> /\ pubLog = <<>>

\* login answered with a token but no machine id
C2_Witness == pc = "exit" /\ access_token = "t" /\ machine_id = None

\* ------------------------------------------------------------------------
\* C3
\* ------------------------------------------------------------------------
\* C3: while the catalog is empty, and whenever the organization is unresolved
\* or no device of the server matched, the cycle holds no telemetry request
\* (issued or outstanding) and no publish.
C3_NoFetchWithoutCatalog ==
  (Len(devices_info) = 0 \/ ~OrgResolved \/ TotalMatching = 0) =>
    /\ reqLog = <<>>
    /\ pubLog = <<>>
    /\ ~TelemetryOutstanding
    /\ issued \cap {"telemetry", "publish"} = {}

\* a cycle ended without any fetch: the organization resolved, devices listed, none matched
C3_Witness ==
  /\ pc = "sleeping" /\ OrgResolved /\ DiscoveryOk
  /\ Len(srvDevices) > 0 /\ Len(devices_info) = 0

\* ------------------------------------------------------------------------
\* C4
\* ------------------------------------------------------------------------
ChunkFailed == \E n \in 1..Len(respLog) : ~respLog[n].ok

\* C4: bulk mode, once a chunk's request has failed in a cycle: the failed
\* request is the last one of the cycle, the fetch returned the empty list and
\* nothing is published, whatever the earlier chunks returned.
C4_ChunkFailureDiscardsCycle ==
  (mode = "bulk" /\ ChunkFailed) =>
    /\ ~respLog[Len(respLog)].ok
    /\ \A n \in 1..(Len(respLog) - 1) : respLog[n].ok
    /\ Len(reqLog) = Len(respLog)
    /\ http = NoReq
    /\ entries = <<>>
    /\ pubLog = <<>>
    /\ CycleDone

\* the second of three chunks failed after the first had returned records
C4_Witness ==
  /\ mode = "bulk" /\ pc = "sleeping"
  /\ Len(respLog) = 2 /\ respLog[1].ok /\ Len(respLog[1].records) > 0 /\ ~respLog[2].ok
  /\ CeilDiv(Len(DeviceIds(devices_info)), batch_size) = 3

\* ------------------------------------------------------------------------
\* C5
\* ------------------------------------------------------------------------
RECURSIVE PublishedFor(_, _)
\* the records handed to publish for device number d, in order
PublishedFor(log, d) ==
  IF Len(log) = 0 THEN <<>>
  ELSE (IF Head(log).dev = d THEN <<Head(log).entry>> ELSE <<>>) \o PublishedFor(Tail(log), d)

\* device number d of the cycle is finished (its request answered, its records published)
DeviceDone(d) == d <= Len(respLog) /\ (CycleDone \/ d < di)

\* C5: windowed mode: the requests of a cycle are one per catalog device, in
\* catalog order, up to the device being polled, and all of them by the end of
\* the cycle; a device whose request failed has no publish, and every other
\* finished device has exactly the records of its own response published.
C5_PerDeviceIsolation ==
  mode = "windowed" =>
    /\ Len(reqLog) <= Len(devices_info)
    /\ \A n \in 1..Len(reqLog) : reqLog[n] = <<devices_info[n].id>>
    /\ InLoop /\ pc # "loop" /\ ~CycleDone => Len(reqLog) = (IF pc = "sensor" THEN di - 1 ELSE di)
    /\ CycleDone => Len(reqLog) = Len(devices_info) /\ Len(respLog) = Len(devices_info)
    /\ \A n \in 1..Len(respLog) :
         /\ ~respLog[n].ok => PublishedFor(pubLog, n) = <<>>
         /\ DeviceDone(n) /\ respLog[n].ok => PublishedFor(pubLog, n) = respLog[n].records

\* the first device's request failed, the second device's records were published all the same
C5_Witness ==
  /\ mode = "windowed" /\ pc = "sleeping"
  /\ Len(devices_info) >= 2
  /\ ~respLog[1].ok /\ respLog[2].ok /\ Len(respLog[2].records) > 0
  /\ PublishedFor(pubLog, 2) = respLog[2].records

\* ------------------------------------------------------------------------
\* C6
\* ------------------------------------------------------------------------
\* the server cuts its listing into pages of the requested size and, when it
\* reports a page count, reports the number of pages it has
NonContradictory ==
  /\ srvChunk = page_size
  /\ srvPageCount.t \in {"none", "int"}
  /\ srvPageCount.t = "int" => srvPageCount.n = CeilDiv(Len(srvDevices), page_size)

\* C6 as stated: for a non-contradictory server, discovery issues at most
\* ceil(totalMatching/pageSize)+1 page requests, totalMatching being the number
\* of devices whose name contains the tenant marker.
C6_BoundByMatching ==
  NonContradictory => pageReqs <= CeilDiv(TotalMatching, page_size) + 1

\* C6 (amended): for a non-contradictory server, discovery issues at most
\* ceil(total/pageSize)+1 page requests, total being the number of devices the
\* server lists, matching or not; and for every server whose pages shrink to
\* empty, with or without a page count, it stops after at most one request
\* more than the server has non-empty pages.
C6_BoundByListed ==
  /\ NonContradictory => pageReqs <= CeilDiv(Len(srvDevices), page_size) + 1
  /\ pageReqs <= CeilDiv(Len(srvDevices), srvChunk) + 1
  /\ (srvPageCount.t = "none" /\ pc = "page" /\ current_page > 1) =>
       Len(SrvPage(current_page - 1)) >= page_size

\* discovery ended after one request more than the server has pages, none of
\* its devices all matching
C6_Witness ==
  /\ pc = "loop" /\ DiscoveryOk /\ NonContradictory
  /\ Len(srvDevices) > 0 /\ TotalMatching < Len(srvDevices)
  /\ pageReqs = CeilDiv(Len(srvDevices), page_size) + 1

\* ------------------------------------------------------------------------
\* C7
\* ------------------------------------------------------------------------
HasId(d) == d.id # None

RECURSIVE IdsOf(_)
IdsOf(ds) == IF Len(ds) = 0 THEN <<>> ELSE <<Head(ds).id>> \o IdsOf(Tail(ds))

\* the ids of the catalog, devices without an id left out
CatalogIds == IdsOf(SelectSeq(devices_info, HasId))

RECURSIVE RecordsOf(_)
RecordsOf(rs) == IF Len(rs) = 0 THEN <<>> ELSE Head(rs).records \o RecordsOf(Tail(rs))

AllOk == \A n \in 1..Len(respLog) : respLog[n].ok

\* C7: bulk mode: the request bodies of a cycle are consecutive chunks of the
\* catalog's ids, each of 1..B ids and all but the last of exactly B; when the
\* fetch has returned with every request answered, there were ceil(N/B)
\* requests, their bodies concatenate to the id list and the result is the
\* concatenation of the chunk results in chunk order.
C7_Chunking ==
  mode = "bulk" =>
    /\ \A n \in 1..Len(reqLog) :
         /\ Len(reqLog[n]) >= 1 /\ Len(reqLog[n]) <= batch_size
         /\ n < Len(reqLog) => Len(reqLog[n]) = batch_size
    /\ IsPrefix(Flatten(reqLog), CatalogIds)
    /\ (pc \in {"publish", "sleep", "sleeping"} /\ AllOk) =>
         /\ Len(reqLog) = CeilDiv(Len(CatalogIds), batch_size)
         /\ Flatten(reqLog) = CatalogIds
         /\ entries = RecordsOf(respLog)

\* three ids fetched in two chunks of two and one, both answered with records
C7_Witness ==
  /\ mode = "bulk" /\ pc = "sleeping" /\ AllOk
  /\ Len(CatalogIds) = 3 /\ batch_size = 2
  /\ Len(reqLog) = 2 /\ Len(reqLog[1]) = 2 /\ Len(reqLog[2]) = 1
  /\ Len(respLog[1].records) > 0 /\ Len(respLog[2].records) > 0
  /\ respLog[1].records # respLog[2].records

\* ------------------------------------------------------------------------
\* C8
\* ------------------------------------------------------------------------
\* no device id can be extracted from the record
NoIdRecord(entry) == entry.deviceid = None /\ entry.device_id = None /\ entry.id = None
HasRecId(entry) == ~NoIdRecord(entry)

\* C8 as stated: in both modes a record from which no device id can be
\* extracted is never handed to the MQTT publish call.
C8_NeverPublishedWithoutId == \A n \in 1..Len(pubLog) : ~NoIdRecord(pubLog[n].entry)

\* C8 (amended): in bulk mode a record without a device id is never handed to
\* publish and skipping it raises no error, the batch running to its end with
\* one publish per record that has an id; in windowed mode every record of a
\* device's response is handed to publish, with or without a device id.
C8_OnlyBulkSkipsRecordsWithoutId ==
  /\ mode = "bulk" =>
       /\ \A n \in 1..Len(pubLog) : ~NoIdRecord(pubLog[n].entry)
       /\ CycleDone => Len(pubLog) = Len(SelectSeq(entries, HasRecId))
  /\ mode = "windowed" =>
       \A n \in 1..Len(respLog) :
         DeviceDone(n) => Len(PublishedFor(pubLog, n)) = Len(respLog[n].records)

\* a bulk batch ended in which a record without id was skipped and the record after it published
C8_Witness ==
  /\ mode = "bulk" /\ pc = "sleeping"
  /\ \E n \in 1..(Len(entries) - 1) : NoIdRecord(entries[n]) /\ HasRecId(entries[n + 1])
  /\ Len(pubLog) > 0 /\ Len(pubLog) < Len(entries)
  /\ pubLog[Len(pubLog)].entry = entries[Len(entries)]

\* ------------------------------------------------------------------------
\* C9
\* ------------------------------------------------------------------------
\* C9: whatever the publish calls return or raise, the records with a device id
\* handed to publish are, in batch order, those among the records of the batch
\* processed so far, and all of them once the batch is done; the thread stays
\* in the loop.
C9_EveryRecordAttempted ==
  /\ pubLog # <<>> => InLoop
  /\ (mode = "bulk" /\ pc = "publish") =>
       PublishedFor(pubLog, 0) = SelectSeq(SubSeq(entries, 1, ei - 1), HasRecId)
  /\ (mode = "bulk" /\ CycleDone) =>
       PublishedFor(pubLog, 0) = SelectSeq(entries, HasRecId)
  /\ (mode = "windowed" /\ pc = "publish") =>
       SelectSeq(PublishedFor(pubLog, di), HasRecId)
         = SelectSeq(SubSeq(entries, 1, ei - 1), HasRecId)
  /\ mode = "windowed" =>
       \A n \in 1..Len(respLog) :
         DeviceDone(n) => SelectSeq(PublishedFor(pubLog, n), HasRecId)
                            = SelectSeq(respLog[n].records, HasRecId)

\* a publish raised and the next record of the same batch, which has an id, was published
C9_Witness ==
  /\ mode = "windowed" /\ pc = "sleeping"
  /\ \E n \in 1..(Len(pubLog) - 1) :
       /\ pubLog[n].rc = "raise"
       /\ pubLog[n + 1].dev = pubLog[n].dev
       /\ HasRecId(pubLog[n + 1].entry)

LoopStarted == (issued \cap {"telemetry", "sleep"}) # {}

StartupKinds == {"login", "orgs", "devices"}

\* C11: once the loop has started, no step changes the catalog, the
\* credentials or the organization id, no step issues a login, organization
\* or device-page request (none is outstanding, the count of page requests and
\* the outcomes of discovery stay as they were), and the program stays in the
\* loop; so every cycle polls the catalog the one discovery left.
C11_LoopFramesStartupState ==
  [][LoopStarted =>
       /\ devices_info' = devices_info
       /\ access_token' = access_token /\ machine_id' = machine_id
       /\ organization_id' = organization_id
       /\ pageReqs' = pageReqs /\ current_page' = current_page
       /\ devicesOutcome' = devicesOutcome /\ orgsOutcome' = orgsOutcome
       /\ http.kind \notin StartupKinds /\ http'.kind \notin StartupKinds
       /\ InLoop /\ InLoop']_vars

\* a later cycle has a request outstanding for the second device of a catalog of three
C11_Witness ==
  /\ "sleep" \in issued /\ TelemetryOutstanding
  /\ Len(devices_info) = 3 /\ Len(reqLog) = 2
  /\ pageReqs >= 2 /\ devicesOutcome = "ok"

\* ------------------------------------------------------------------------
\* C12
\* ------------------------------------------------------------------------
RECURSIVE ReturnedUpTo(_)
\* the devices of pages 1..k of the listing, in page order then in-page order
ReturnedUpTo(k) == IF k <= 0 THEN <<>> ELSE ReturnedUpTo(k - 1) \o SrvPage(k)

\* one record per device of ds whose name contains the marker, in the order of ds
RecordsFor(ds) ==
  LET ms == SelectSeq(ds, HasMarker)
  IN  [n \in 1..Len(ms) |-> DeviceRecord(ms[n])]

\* C12: while a discovery runs the catalog is exactly the records of the
\* marker-named devices of the pages received so far, and after a discovery
\* that completed without error it is exactly the records of the marker-named
\* devices of all pages returned, in page order then in-page order; nothing
\* of the catalog an earlier call left remains.
C12_CatalogIsMatchingInOrder ==
  /\ pc = "page" => devices_info = RecordsFor(ReturnedUpTo(current_page - 1))
  /\ pc = "page_wait" => devices_info = RecordsFor(ReturnedUpTo(current_page - 1))
  /\ (pc = "loop" /\ devicesOutcome = "ok") =>
       /\ pageReqs = current_page
       /\ devices_info = RecordsFor(ReturnedUpTo(pageReqs))

\* a discovery of two pages that returned three devices, one of them without
\* the marker, has completed with a catalog of two
C12_Witness ==
  /\ pc = "loop" /\ devicesOutcome = "ok"
  /\ pageReqs = 2 /\ Len(ReturnedUpTo(2)) = 3
  /\ Len(devices_info) = 2
  /\ ~HasMarker(SrvPage(1)[1]) /\ HasMarker(SrvPage(1)[2]) /\ HasMarker(SrvPage(2)[1])

\* ------------------------------------------------------------------------
\* C13
\* ------------------------------------------------------------------------
\* the three stop conditions of the claim, for the page just requested
PageEmpty == Len(SrvPage(current_page)) = 0
PageCountReached == srvPageCount.t = "int" /\ current_page >= srvPageCount.n
PageShort == srvPageCount.t = "none" /\ Len(SrvPage(current_page)) < page_size

\* the request of a step that issues a device-page request is numbered one
\* more than the page requests so far: 1, 2, 3, ...
ConsecutivePages == (http.kind # "devices" /\ http'.kind = "devices") => http'.page = pageReqs + 1

\* C13 as stated: pages are requested consecutively, and after every page the
\* server returned discovery stops if one of the three conditions holds and
\* requests the next page in every other case (for a page whose Results is
\* not a list, only a reached page count or an omitted one can be the reason).
C13_NextPageInEveryOtherCase ==
  [][/\ ConsecutivePages
     /\ (pc = "page_wait" /\ devicesOutcome' = "malformed") =>
          (PageCountReached \/ srvPageCount.t = "none")
     /\ (pc = "page_wait" /\ devicesOutcome' \notin {"error", "malformed"}) =>
          IF PageEmpty \/ PageCountReached \/ PageShort
          THEN pc' = "loop"
          ELSE pc' = "page" /\ current_page' = current_page + 1]_vars

\* C13 (amended): pages are requested consecutively; after a page whose
\* Results is a list discovery stops if the page is empty, or the page count
\* is an integer the current page has reached, or the page count is absent
\* and the page has fewer than pageSize items, and requests the next page in
\* every other case; a page whose Results is not a list and a failed request
\* stop discovery whatever the conditions say.
C13_StopRules ==
  [][/\ ConsecutivePages
     /\ (pc = "page_wait" /\ devicesOutcome' \in {"error", "malformed"}) =>
          (pc' = "loop" /\ pageReqs' = pageReqs)
     /\ (pc = "page_wait" /\ devicesOutcome' \notin {"error", "malformed"}) =>
          IF PageEmpty \/ PageCountReached \/ PageShort
          THEN pc' = "loop" /\ devicesOutcome' = "ok"
          ELSE pc' = "page" /\ current_page' = current_page + 1]_vars

\* discovery stopped on its second page, a full page, because the reported
\* page count of two was reached, although the listing had more devices
C13_Witness ==
  /\ pc = "loop" /\ devicesOutcome = "ok"
  /\ srvPageCount = PcInt(2) /\ current_page = 2 /\ pageReqs = 2
  /\ page_size = srvChunk /\ Len(SrvPage(2)) = page_size
  /\ Len(srvDevices) > 2 * srvChunk

\* ------------------------------------------------------------------------
\* C14
\* ------------------------------------------------------------------------
\* C14: once a page's Results was not a list, get_devices has returned
\* normally, no page request is outstanding and none was issued after the
\* malformed page (the page requests number the malformed page), and the
\* catalog is exactly the records of the marker-named devices of the pages
\* before it.
C14_MalformedPageStops ==
  devicesOutcome = "malformed" =>
    /\ pc = "loop"
    /\ http = NoReq
    /\ pageReqs = current_page
    /\ devices_info = RecordsFor(ReturnedUpTo(current_page - 1))

\* the second page was malformed; the catalog holds the two devices matched on the first
C14_Witness ==
  /\ devicesOutcome = "malformed" /\ pc = "loop"
  /\ current_page = 2 /\ pageReqs = 2
  /\ Len(devices_info) = 2 /\ Len(srvDevices) = 3
  /\ HasMarker(srvDevices[3])

\* ------------------------------------------------------------------------
\* C15
\* ------------------------------------------------------------------------
\* no organization of the server's list has the requested name once both are trimmed
NoTrimmedMatch == \A n \in 1..Len(srvOrgs) : Strip(srvOrgs[n].name) # Strip(Gallarus)

\* get_organizations has returned without resolving: nothing matched, or its request failed
OrgLookupFailed == (orgsOutcome = "ok" /\ NoTrimmedMatch) \/ orgsOutcome = "error"

\* C15: when no organization matched or the organization request failed, the
\* organization id stays unset, and the discovery that follows issues no
\* device-page request and leaves the catalog as it was, empty.
C15_UnresolvedOrgSkipsDiscovery ==
  OrgLookupFailed =>
    /\ organization_id = None
    /\ pageReqs = 0 /\ "devices" \notin issued /\ http.kind # "devices"
    /\ devices_info = <<>>
    /\ pc \in {"devices", "loop"}
    /\ pc = "loop" => devicesOutcome = "skipped"

\* two organizations were listed, neither with the name; discovery was skipped
\* although the server had marker-named devices to list
C15_Witness ==
  /\ orgsOutcome = "ok" /\ NoTrimmedMatch /\ Len(srvOrgs) = 2
  /\ pc = "loop" /\ devicesOutcome = "skipped"
  /\ TotalMatching > 0 /\ devices_info = <<>>

\* ------------------------------------------------------------------------
\* C16
\* ------------------------------------------------------------------------
\* the device id of a telemetry record: its deviceid, else its device_id, else its id
RecordDeviceId(entry) ==
  IF entry.deviceid # None THEN entry.deviceid
  ELSE IF entry.device_id # None THEN entry.device_id
  ELSE entry.id

\* "Astellas/Statuses/<deviceId>"
ExpectedBulkTopic(deviceId) ==
  <<"A", "s", "t", "e", "l", "l", "a", "s", "/",
    "S", "t", "a", "t", "u", "s", "e", "s", "/", deviceId>>

\* "Astellas/<area>/<external id>", "unknown" standing for an empty external id
ExpectedWindowedTopic(area, externalId) ==
  <<"A", "s", "t", "e", "l", "l", "a", "s", "/">> \o area \o <<"/">>
    \o (IF externalId = <<>> THEN <<"u", "n", "k", "n", "o", "w", "n">> ELSE externalId)

\* C16: the topic of every publish of a cycle is the function of mode, record
\* device id, area and external id the claim gives: in bulk mode
\* Astellas/Statuses/<deviceId of the record>, in windowed mode
\* Astellas/<area>/<external id> of the catalog device polled, with "unknown"
\* for an empty external id; nothing else of the state enters the topic.
C16_TopicIsFunctionOfInputs ==
  \A n \in 1..Len(pubLog) :
    pubLog[n].topic =
      IF mode = "bulk"
      THEN ExpectedBulkTopic(RecordDeviceId(pubLog[n].entry))
      ELSE ExpectedWindowedTopic(devices_info[pubLog[n].dev].area,
                                 devices_info[pubLog[n].dev].external)

\* in a later cycle of the windowed program a record of the device without
\* external id and without area was published on Astellas/Unknown/unknown
C16_Witness ==
  /\ mode = "windowed" /\ "sleep" \in issued
  /\ \E n \in 1..Len(pubLog) :
       /\ devices_info[pubLog[n].dev].external = <<>>
       /\ pubLog[n].topic = <<"A", "s", "t", "e", "l", "l", "a", "s", "/",
                              "U", "n", "k", "n", "o", "w", "n", "/",
                              "u", "n", "k", "n", "o", "w", "n">>

\* ------------------------------------------------------------------------
\* C17
\* ------------------------------------------------------------------------
\* the keys the claim names for the mode
KnownKeys == IF mode = "bulk" THEN {"Results", "results", "data"} ELSE ResponseKeys

\* the lists the decoded response holds under known keys
ListsUnderKnownKeys ==
  { decoded.obj[key].items : key \in { q \in KnownKeys : decoded.obj[q].t = "list" } }

\* C17: the records taken from a telemetry response are the response itself
\* when it is a list, a list stored under a known key when the response is an
\* object that has a list under any of the known keys, and no records when it
\* has neither shape.
C17_RecordsFromResponse ==
  pc = "records_done" =>
    IF decoded.t = "list" THEN taken = decoded.items
    ELSE IF decoded.t = "dict" /\ ListsUnderKnownKeys # {} THEN taken \in ListsUnderKnownKeys
    ELSE taken = <<>>

\* the same, for the windowed program only
C17_WindowedOnly == mode = "windowed" => C17_RecordsFromResponse

\* ------------------------------------------------------------------------
\* C18
\* ------------------------------------------------------------------------
TrimmedMatchAt(n) == Strip(srvOrgs[n].name) = Strip(Gallarus)

\* C18: when get_organizations has received a list in which at least one
\* organization has the name, the stored organization id is, from then on, the
\* id of the first such organization in list order, whatever matches follow it.
C18_FirstMatchWins ==
  (orgsOutcome = "ok" /\ ~NoTrimmedMatch) =>
    \E n \in 1..Len(srvOrgs) :
      /\ TrimmedMatchAt(n)
      /\ \A m \in 1..(n - 1) : ~TrimmedMatchAt(m)
      /\ organization_id = srvOrgs[n].id

\* two organizations of the list match, with ids org1 and org2 in this order;
\* org1 is stored and still is when discovery has run
C18_Witness ==
  /\ orgsOutcome = "ok" /\ pc = "loop" /\ devicesOutcome = "ok"
  /\ \E m, n \in 1..Len(srvOrgs) :
       /\ m < n /\ TrimmedMatchAt(m) /\ TrimmedMatchAt(n)
       /\ srvOrgs[m].id = "org1" /\ srvOrgs[n].id = "org2"
  /\ organization_id = "org1"

\* ------------------------------------------------------------------------
\* C19
\* ------------------------------------------------------------------------
RECURSIVE DropSpaces(_)
\* the pieces without the spaces they begin with
DropSpaces(ts) == IF Len(ts) > 0 /\ Head(ts) = " " THEN DropSpaces(Tail(ts)) ELSE ts

RECURSIVE Reverse(_)
Reverse(ts) == IF Len(ts) = 0 THEN <<>> ELSE Reverse(Tail(ts)) \o <<Head(ts)>>

IsNoMarker(t) == t # "M"

\* the area the claim gives for a name made of the pieces ts: the pieces that
\* are not the marker, without the spaces at either end; "Unknown" when nothing is left
ExpectedArea(ts) ==
  LET rest == SelectSeq(ts, IsNoMarker)
      trimmed == Reverse(DropSpaces(Reverse(DropSpaces(rest))))
  IN  IF trimmed = <<>> THEN <<"U", "n", "k", "n", "o", "w", "n">> ELSE trimmed

HasMarkerPiece(ts) == \E n \in 1..Len(ts) : ts[n] = "M"

\* C19: when discovery has completed on a listing of one device whose name
\* contains the marker, the catalog holds one record, and its area is the name
\* with every marker removed and the result trimmed, or "Unknown" when that is
\* empty.
C19_AreaIsNameWithoutMarker ==
  (pc = "loop" /\ devicesOutcome = "ok") =>
    \A ts \in TokenSeqs :
      (NameOf(ts) = srvDevices[1].name /\ HasMarkerPiece(ts)) =>
        /\ Len(devices_info) = 1
        /\ devices_info[1].area = ExpectedArea(ts)

\* the device is named " Astellas Astellas": removing the markers leaves
\* spaces only, and the stored area is the sentinel
C19_Witness ==
  /\ pc = "loop" /\ devicesOutcome = "ok"
  /\ srvDevices[1].name = <<" ">> \o Astellas \o <<" ">> \o Astellas
  /\ Len(devices_info) = 1
  /\ devices_info[1].area = <<"U", "n", "k", "n", "o", "w", "n">>

\* ------------------------------------------------------------------------
\* C20
\* ------------------------------------------------------------------------
\* the telemetry requests of the cycle that have no answer yet
Unanswered == Len(reqLog) - Len(respLog)

\* the records of the cycle's fetch that carry a device id (bulk program)
WithId(rs) == SelectSeq(rs, HasRecId)

\* C20: in the loop at most one request of the cycle is unanswered, and one
\* is exactly while a telemetry request is outstanding; when the cycle's sleep
\* starts nothing is outstanding, every request of the cycle was answered and
\* every publish of the cycle was made (bulk: one per record with an id of a
\* fetch that succeeded; windowed: the records of every answered device). In
\* bulk mode a publish happens only when all ceil(N/B) chunk requests were
\* answered; in windowed mode, when the request of a device is issued, the
\* records of every device before it have all been published.
C20_OneAtATimeInOrder ==
  InLoop =>
    /\ Unanswered \in {0, 1}
    /\ Unanswered = 1 <=> TelemetryOutstanding
    /\ TelemetryOutstanding <=> pc \in {"chunk_wait", "sensor_wait"}
    /\ CycleDone =>
         /\ http = NoReq /\ Unanswered = 0
         /\ mode = "bulk" /\ AllOk => Len(pubLog) = Len(WithId(RecordsOf(respLog)))
         /\ mode = "windowed" =>
              \A n \in 1..Len(respLog) :
                respLog[n].ok => PublishedFor(pubLog, n) = respLog[n].records
    /\ (mode = "bulk" /\ Len(pubLog) > 0) =>
         /\ http = NoReq /\ AllOk
         /\ Len(respLog) = CeilDiv(Len(CatalogIds), batch_size)
    /\ mode = "windowed" =>
         \A n \in 1..Len(reqLog) : \A m \in 1..(n - 1) :
           /\ m <= Len(respLog)
           /\ respLog[m].ok => PublishedFor(pubLog, m) = respLog[m].records

\* bulk program: the first record is being published after both chunk
\* requests of the cycle were answered
C20_Witness ==
  /\ mode = "bulk" /\ pc = "publish"
  /\ Len(reqLog) = 2 /\ Len(respLog) = 2 /\ AllOk
  /\ Len(respLog[1].records) > 0
  /\ Len(pubLog) = 1 /\ pubLog[1].entry = respLog[1].records[1]

\* windowed program: the request of the second device is outstanding and both
\* records of the first device were published before it
C20_WitnessWindowed ==
  /\ mode = "windowed" /\ pc = "sensor_wait" /\ di = 2
  /\ http.kind = "dataview" /\ Len(reqLog) = 2 /\ Len(respLog) = 1
  /\ Len(respLog[1].records) = 2
  /\ PublishedFor(pubLog, 1) = respLog[1].records

\* ------------------------------------------------------------------------
\* C21
\* ------------------------------------------------------------------------
\* the catalog the claim gives when the request for the current page failed:
\* the records of the marker-named devices of the pages before it
PartialCatalog == RecordsFor(ReturnedUpTo(current_page - 1))

\* C21: once the request for page k has failed, get_devices has returned
\* normally and the program is in its loop, no page request follows the failed
\* one, and the catalog is exactly the records of the marker-named devices of
\* pages 1..k-1; the requests of every cycle are made for that partial catalog:
\* windowed, one per device of it in order and all of them by the end of the
\* cycle; bulk, consecutive chunks of its ids and all of them when no chunk failed.
C21_PageFailureLeavesPartialCatalog ==
  devicesOutcome = "error" =>
    /\ InLoop
    /\ http.kind # "devices" /\ pageReqs = current_page
    /\ devices_info = PartialCatalog
    /\ mode = "windowed" =>
         /\ Len(reqLog) <= Len(PartialCatalog)
         /\ \A n \in 1..Len(reqLog) : reqLog[n] = <<PartialCatalog[n].id>>
         /\ CycleDone => Len(reqLog) = Len(PartialCatalog)
    /\ mode = "bulk" =>
         /\ IsPrefix(Flatten(reqLog), IdsOf(SelectSeq(PartialCatalog, HasId)))
         /\ (CycleDone /\ AllOk) =>
              Flatten(reqLog) = IdsOf(SelectSeq(PartialCatalog, HasId))

\* the request for page 2 failed, the catalog holds the one device matched on
\* page 1 although the server lists more, and a later cycle has a telemetry
\* request outstanding for it
C21_Witness ==
  /\ devicesOutcome = "error" /\ current_page = 2
  /\ Len(devices_info) = 1 /\ TotalMatching > 1
  /\ "sleep" \in issued /\ TelemetryOutstanding
  /\ Len(reqLog) = 1 /\ Flatten(reqLog) = <<devices_info[1].id>>

====
